---- MODULE Spec2Model ----
(***************************************************************************)
(* Model of loadtest/collect_metrics.py: the Prometheus query client, the  *)
(* pod and ingress collectors, the Markdown renderer, the urls.json loader *)
(* and main().                                                             *)
(*                                                                         *)
(* Strings are sequences of one-character strings, so that split, strip,   *)
(* join, slicing and URL parsing are computed character by character.      *)
(* Dicts are sequences of <<key, value>> pairs in insertion order.         *)
(* Numbers read from Prometheus are fixed-point integers counting 1/10000; *)
(* a field rounded to d decimals is stored as an integer counting 10^-d.   *)
(***************************************************************************)
EXTENDS Integers, Sequences, FiniteSets, TLC

VARIABLES
    pc,            \* position in main(): the next step to run
    err,           \* the exception that ended the run, "none" while running
    errAt,         \* the query family whose rows were being read when it was raised
    args,          \* argparse's namespace (main, line 257)
    fs,            \* the file system: the --urls file, and the files written
    namespaces,    \* main's namespaces list (lines 269/272)
    hosts,         \* main's hosts list (lines 270/273)
    inflight,      \* HTTP requests sent and not yet answered
    requests,      \* every query sent so far, in order
    selector,      \* the collector's ns_selector / host_selector (lines 51, 129)
    net_rx_result, \* the receive reply held while the transmit query runs (line 96)
    pod_metrics,   \* metrics of collect_pod_metrics
    ingress_metrics, \* metrics of collect_ingress_metrics
    label_idx,     \* position in the percentile loop (line 159)
    returned,      \* per query family: the label sets of the rows of a success reply
    status,        \* per query family: "none", "success" or "other"
    md_report      \* the report last rendered by generate_markdown_report (line 298)

vars == <<pc, err, errAt, args, fs, namespaces, hosts, inflight, requests,
          selector, net_rx_result, pod_metrics, ingress_metrics, label_idx, returned,
          status, md_report>>

-----------------------------------------------------------------------------
(* Bounds of the model.                                                    *)

MaxRows == 2

MaxEntries == 2

-----------------------------------------------------------------------------
(* Strings.                                                                *)

unknown == <<"u", "n", "k", "n", "o", "w", "n">>

ingress_nginx == <<"i", "n", "g", "r", "e", "s", "s", "-", "n", "g", "i", "n", "x">>

default_ns == <<"d", "e", "f", "a", "u", "l", "t">>

foo_localhost == <<"f", "o", "o", ".", "l", "o", "c", "a", "l", "h", "o", "s", "t">>

bar_localhost == <<"b", "a", "r", ".", "l", "o", "c", "a", "l", "h", "o", "s", "t">>

Whitespace == {" ", "\t", "\n"}

RECURSIVE Split(_, _)
\* str.split(sep): the pieces between occurrences of sep; "" gives [""].
Split(s, sep) ==
    IF \E i \in 1..Len(s) : s[i] = sep
    THEN LET i == CHOOSE j \in 1..Len(s) :
                      s[j] = sep /\ \A k \in 1..(j - 1) : s[k] # sep
         IN <<SubSeq(s, 1, i - 1)>> \o Split(SubSeq(s, i + 1, Len(s)), sep)
    ELSE <<s>>

\* str.strip(): leading and trailing whitespace removed.
Strip(s) ==
    LET keep == {i \in 1..Len(s) : s[i] \notin Whitespace}
    IN IF keep = {} THEN <<>>
       ELSE LET lo == CHOOSE i \in keep : \A j \in keep : i <= j
                hi == CHOOSE i \in keep : \A j \in keep : j <= i
            IN SubSeq(s, lo, hi)

RECURSIVE Join(_, _)
\* sep.join(parts)
Join(parts, sep) ==
    IF parts = <<>> THEN <<>>
    ELSE IF Len(parts) = 1 THEN parts[1]
    ELSE parts[1] \o <<sep>> \o Join(Tail(parts), sep)

\* [x.strip() for x in text.split(',')]  (lines 269-273)
SplitStrip(text) ==
    LET parts == Split(text, ",")
    IN [i \in 1..Len(parts) |-> Strip(parts[i])]

-----------------------------------------------------------------------------
(* Dicts in insertion order.                                               *)

Has(d, k) == \E i \in 1..Len(d) : d[i][1] = k

Get(d, k, dflt) ==
    IF Has(d, k) THEN d[CHOOSE i \in 1..Len(d) : d[i][1] = k][2] ELSE dflt

\* d[k] = v: a present key keeps its place, a new key goes last.
Put(d, k, v) ==
    IF Has(d, k)
    THEN [i \in 1..Len(d) |-> IF d[i][1] = k THEN <<k, v>> ELSE d[i]]
    ELSE Append(d, <<k, v>>)

Keys(d) == [i \in 1..Len(d) |-> d[i][1]]

KeySet(d) == {d[i][1] : i \in 1..Len(d)}

-----------------------------------------------------------------------------
(* Numbers. round() rounds half to even.                                   *)

\* n/d rounded to the nearest integer, ties to even (n >= 0, d > 0).
RoundDiv(n, d) ==
    LET q == n \div d
        r == n % d
    IN IF 2 * r < d THEN q
       ELSE IF 2 * r > d THEN q + 1
       ELSE IF q % 2 = 0 THEN q ELSE q + 1

-----------------------------------------------------------------------------
(* PrometheusClient.                                                       *)
(*                                                                         *)
(* An HTTP reply is [net, http, decodable, json]: whether the connection   *)
(* worked, the status code, whether the body decodes as JSON, and the      *)
(* decoded envelope [status, data, result].  data is "missing" (no 'data'  *)
(* key), "nonmap" (a value without .get, such as null) or "map"; result is *)
(* the list under data['result'] (empty when the key is missing).  A row   *)
(* is [has_metric, metric, value], value being [kind, k] with kind         *)
(* "missing" (no 'value' key), "text" (a string float() rejects) or "num". *)

TransportErrors == {"ConnectionError", "HTTPError", "JSONDecodeError"}

\* PrometheusClient.query: requests.get, raise_for_status, response.json.
query(reply) ==
    IF reply.net # "ok"
    THEN [raised |-> TRUE, exc |-> "ConnectionError", result |-> reply.json]
    ELSE IF reply.http >= 400
    THEN [raised |-> TRUE, exc |-> "HTTPError", result |-> reply.json]
    ELSE IF ~reply.decodable
    THEN [raised |-> TRUE, exc |-> "JSONDecodeError", result |-> reply.json]
    ELSE [raised |-> FALSE, exc |-> "none", result |-> reply.json]

\* result.get('data', {}).get('result', []) for a data that has .get
ResultRows(envelope) ==
    IF envelope.data = "map" THEN envelope.result ELSE <<>>

-----------------------------------------------------------------------------
(* The collectors' row loops.                                              *)

PodFamilies == {"cpu", "memory", "net_rx", "net_tx"}

Percentiles == <<"p50", "p95", "p99">>

\* float(item['value'][1]) and the labels: the exception the row raises.
RowError(item) ==
    IF ~item.has_metric THEN "KeyError"
    ELSE IF item.value.kind = "missing" THEN "KeyError"
    ELSE IF item.value.kind = "text" THEN "ValueError"
    ELSE "none"

\* The fields one row of a family writes, from value k (in 1/10000).
Fields(family, k) ==
    CASE family = "cpu" ->
            <<<<"usage_cores", k>>, <<"usage_millicores", k * 10>>>>
      [] family = "memory" ->
            <<<<"usage_bytes", RoundDiv(k, 10000)>>,
              <<"usage_mb", RoundDiv(k, 100 * (1024 * 1024))>>>>
      [] family = "net_rx" ->
            <<<<"rx_bytes_per_sec", RoundDiv(k, 100)>>,
              <<"rx_kb_per_sec", RoundDiv(k, 100 * 1024)>>>>
      [] family = "net_tx" ->
            <<<<"tx_bytes_per_sec", RoundDiv(k, 100)>>,
              <<"tx_kb_per_sec", RoundDiv(k, 100 * 1024)>>>>
      [] family = "req" -> <<<<"total_requests", k \div 10000>>>>
      [] family = "rate" -> <<<<"requests_per_sec", RoundDiv(k, 100)>>>>
      [] family = "p50" -> <<<<"p50_latency_ms", k * 10>>>>
      [] family = "p95" -> <<<<"p95_latency_ms", k * 10>>>>
      [] family = "p99" -> <<<<"p99_latency_ms", k * 10>>>>

RECURSIVE PutAll(_, _)
PutAll(d, kvs) ==
    IF kvs = <<>> THEN d
    ELSE PutAll(Put(d, kvs[1][1], kvs[1][2]), Tail(kvs))

\* The mapping of collect_pod_metrics a family writes to.
Section(family) ==
    CASE family = "cpu" -> "cpu"
      [] family = "memory" -> "memory"
      [] family \in {"net_rx", "net_tx"} -> "network"

\* One well-formed row of a pod family folded into metrics
\* (lines 67-75, 82-90, 101-109, 113-121).
StorePod(metrics, family, item) ==
    LET ns == Get(item.metric, "namespace", unknown)
        pod == Get(item.metric, "pod", unknown)
        sec == Section(family)
        byPod == Get(metrics[sec], ns, <<>>)
        \* cpu and memory assign a fresh record; network updates the pod's record
        old == IF sec = "network" THEN Get(byPod, pod, <<>>) ELSE <<>>
        rec == PutAll(old, Fields(family, item.value.k))
    IN [metrics EXCEPT ![sec] = Put(metrics[sec], ns, Put(byPod, pod, rec))]

\* A host's record is created with its three percentiles at 0.
StoreIngressZeroFill(metrics, family, item) ==
    LET host == Get(item.metric, "host", unknown)
        zeros == <<<<"p50_latency_ms", 0>>, <<"p95_latency_ms", 0>>,
                   <<"p99_latency_ms", 0>>>>
        old == Get(metrics.ingress, host, zeros)
    IN [metrics EXCEPT !.ingress =
            Put(metrics.ingress, host, PutAll(old, Fields(family, item.value.k)))]

\* One well-formed row of an ingress family folded into metrics
\* (lines 141-145, 152-156, 164-168).
StoreIngress(metrics, family, item) ==
    LET host == Get(item.metric, "host", unknown)
        old == Get(metrics.ingress, host, <<>>)
    IN [metrics EXCEPT !.ingress =
            Put(metrics.ingress, host, PutAll(old, Fields(family, item.value.k)))]

Store(metrics, family, item) ==
    IF family \in PodFamilies THEN StorePod(metrics, family, item)
    ELSE StoreIngress(metrics, family, item)

RECURSIVE FoldRows(_, _, _)
\* for item in ...: the loop stops at the first row that raises.
FoldRows(metrics, family, rows) ==
    IF rows = <<>> THEN [exc |-> "none", metrics |-> metrics]
    ELSE IF RowError(rows[1]) # "none"
    THEN [exc |-> RowError(rows[1]), metrics |-> metrics]
    ELSE FoldRows(Store(metrics, family, rows[1]), family, Tail(rows))

\* The status is not looked at.
ProcessAnyStatus(metrics, family, envelope) ==
    IF envelope.data = "nonmap"
    THEN [exc |-> "AttributeError", metrics |-> metrics]
    ELSE FoldRows(metrics, family, ResultRows(envelope))

\* if result.get('status') == 'success': for item in result.get('data', {}).get('result', []): ...
Process(metrics, family, envelope) ==
    IF envelope.status # "success" THEN [exc |-> "none", metrics |-> metrics]
    ELSE IF envelope.data = "nonmap"
    THEN [exc |-> "AttributeError", metrics |-> metrics]
    ELSE FoldRows(metrics, family, ResultRows(envelope))

-----------------------------------------------------------------------------
(* generate_markdown_report.  A cell is <<"int", n>> or <<"float", n>>:    *)
(* the default 0 of a .get prints as an integer, a stored float as a float. *)

DisplayMax == 40

Ellipsis == <<".", ".", ".">>

\* pod[:40] + '...' if len(pod) > 40 else pod
PodDisplay(pod) ==
    IF Len(pod) > DisplayMax THEN SubSeq(pod, 1, DisplayMax) \o Ellipsis ELSE pod

\* d.get(field, 0) as the f-string prints it
Cell(d, field, kind) ==
    IF Has(d, field) THEN <<kind, Get(d, field, 0)>> ELSE <<"int", 0>>

RECURSIVE Concat(_)
Concat(seqs) == IF seqs = <<>> THEN <<>> ELSE seqs[1] \o Concat(Tail(seqs))

\* One row of the pod table (lines 186-192).
PodRow(metrics, ns, pod) ==
    LET c == Get(Get(metrics.cpu, ns, <<>>), pod, <<>>)
        m == Get(Get(metrics.memory, ns, <<>>), pod, <<>>)
        n == Get(Get(metrics.network, ns, <<>>), pod, <<>>)
    IN [ns |-> ns, pod |-> PodDisplay(pod),
        cpu |-> Cell(c, "usage_millicores", "float"),
        mem |-> Cell(m, "usage_mb", "float"),
        rx |-> Cell(n, "rx_kb_per_sec", "float"),
        tx |-> Cell(n, "tx_kb_per_sec", "float")]

\* The rows are enumerated from the memory mapping.
PodTableOverMemory(metrics) ==
    Concat([i \in 1..Len(metrics.memory) |->
        LET ns == metrics.memory[i][1]
            pods == Keys(metrics.memory[i][2])
        IN [j \in 1..Len(pods) |-> PodRow(metrics, ns, pods[j])]])

\* for ns in pod_metrics['cpu']: for pod in pod_metrics['cpu'][ns]: ...
PodTable(metrics) ==
    Concat([i \in 1..Len(metrics.cpu) |->
        LET ns == metrics.cpu[i][1]
            pods == Keys(metrics.cpu[i][2])
        IN [j \in 1..Len(pods) |-> PodRow(metrics, ns, pods[j])]])

\* The ingress table (lines 195-206); no table when the mapping is empty.
IngressTable(metrics) ==
    [i \in 1..Len(metrics.ingress) |->
        LET data == metrics.ingress[i][2]
        IN [host |-> metrics.ingress[i][1],
            total_req |-> Cell(data, "total_requests", "int"),
            rps |-> Cell(data, "requests_per_sec", "float"),
            p50 |-> Cell(data, "p50_latency_ms", "float"),
            p95 |-> Cell(data, "p95_latency_ms", "float"),
            p99 |-> Cell(data, "p99_latency_ms", "float")]]

generate_markdown_report(pm, im) ==
    [duration_minutes |-> pm.duration_minutes,
     pod_table |-> PodTable(pm),
     ingress_table |-> IngressTable(im)]

-----------------------------------------------------------------------------
(* load_config_from_urls_file.  An entry of urls.json is                   *)
(* [has_namespace, namespace, has_url, url].                               *)

Letters == {"a", "b", "c", "g", "h", "s", "x"}

SchemeChars == Letters \cup {"0", "1", "+", "-", "."}

\* The first position of s at or after from holding a character of cs, or Len(s)+1.
Find(s, cs, from) ==
    IF \E i \in from..Len(s) : s[i] \in cs
    THEN CHOOSE i \in from..Len(s) :
            s[i] \in cs /\ \A j \in from..(i - 1) : s[j] \notin cs
    ELSE Len(s) + 1

\* urlparse(url).netloc: the scheme, if any, is cut off; what follows a
\* leading '//' up to the next '/', '?' or '#' is the netloc.
Netloc(url) ==
    LET i == Find(url, {":"}, 1)
        hasScheme == /\ i > 1
                     /\ i <= Len(url)
                     /\ url[1] \in Letters
                     /\ \A j \in 1..(i - 1) : url[j] \in SchemeChars
        rest == IF hasScheme THEN SubSeq(url, i + 1, Len(url)) ELSE url
    IN IF Len(rest) >= 2 /\ rest[1] = "/" /\ rest[2] = "/"
       THEN SubSeq(rest, 3, Find(rest, {"/", "?", "#"}, 3) - 1)
       ELSE <<>>

RECURSIVE ConfigHosts(_)
\* The loop's hosts list (lines 225-232).
ConfigHosts(entries) ==
    IF entries = <<>> THEN <<>>
    ELSE LET url == IF entries[1].has_url THEN entries[1].url ELSE <<>>
             here == IF url # <<>> /\ Netloc(url) # <<>>
                     THEN <<Netloc(url)>> ELSE <<>>
         IN here \o ConfigHosts(Tail(entries))

\* 'ingress-nginx' is not added.
ConfigNamespacesAsGiven(entries) ==
    {entries[i].namespace : i \in {j \in 1..Len(entries) : entries[j].has_namespace}}

\* The loop's namespaces set, with 'ingress-nginx' added (lines 222-223, 235).
ConfigNamespaces(entries) ==
    {entries[i].namespace : i \in {j \in 1..Len(entries) : entries[j].has_namespace}}
        \cup {ingress_nginx}

\* list(a set): the elements in an order the program does not choose.
ListsOf(S) ==
    {p \in [1..Cardinality(S) -> S] : \A i, j \in 1..Cardinality(S) : p[i] = p[j] => i = j}

\* Every (namespaces, hosts) the call can return.
load_config_from_urls_file(entries) ==
    {[namespaces |-> p, hosts |-> ConfigHosts(entries)] :
        p \in ListsOf(ConfigNamespaces(entries))}

-----------------------------------------------------------------------------
(* main() and the collectors, step by step.  A query is two steps: the     *)
(* request is sent (SendQuery) and the blocked call returns with the reply *)
(* (the Recv actions), which also run the code up to the next request.     *)

Families == PodFamilies \cup {"req", "rate", "p50", "p95", "p99"}

QueryStages == {"cpu", "memory", "net_rx", "net_tx", "req", "rate", "latency"}

NoEnvelope == [status |-> "none", data |-> "missing", result |-> <<>>]

NoPodMetrics ==
    [namespaces |-> <<>>, duration_minutes |-> 0,
     cpu |-> <<>>, memory |-> <<>>, network |-> <<>>]

NoIngressMetrics == [hosts |-> <<>>, ingress |-> <<>>]

NoReport == [duration_minutes |-> 0, pod_table |-> <<>>, ingress_table |-> <<>>]

\* An option's value is [given, text]; bool(args.x) is False for None and for "".
Truthy(arg) == arg.given /\ arg.text # <<>>

\* [x.strip() for x in args.x.split(',')] if args.x else fallback
Resolve(arg, fallback) ==
    IF Truthy(arg) THEN SplitStrip(arg.text) ELSE fallback

\* The defaults of lines 272-273.
DefaultConfig ==
    [namespaces |-> <<default_ns, ingress_nginx>>,
     hosts |-> <<foo_localhost, bar_localhost>>]

\* if args.urls and os.path.isfile(args.urls)
UsesFile == Truthy(args.urls) /\ fs.isfile

\* main, lines 257-277.
ParseConfig ==
    /\ pc = "start"
    /\ \E cfg \in (IF UsesFile THEN load_config_from_urls_file(fs.entries)
                   ELSE {DefaultConfig}) :
          /\ namespaces' = Resolve(args.namespaces, cfg.namespaces)
          /\ hosts' = Resolve(args.hosts, cfg.hosts)
    /\ pc' = "pod_start"
    /\ UNCHANGED <<err, errAt, args, fs, inflight, requests, selector,
                   net_rx_result, pod_metrics, ingress_metrics, label_idx,
                   returned, status, md_report>>

RECURSIVE Distinct(_)
\* names without its repeats: each name where it first occurs.
Distinct(names) ==
    IF names = <<>> THEN <<>>
    ELSE <<names[1]>> \o Distinct(SelectSeq(Tail(names), LAMBDA n : n # names[1]))

\* The names are deduplicated before they are joined.
SelectorDistinct(names) == Join(Distinct(names), "|")

\* '|'.join(names): the regex alternation of lines 51 and 129.
Selector(names) == Join(names, "|")

\* collect_pod_metrics, lines 51-60 (collection_time, the clock's reading, is left out).
EnterPodCollector ==
    /\ pc = "pod_start"
    /\ selector' = Selector(namespaces)
    /\ pod_metrics' = [NoPodMetrics EXCEPT !.namespaces = namespaces,
                                           !.duration_minutes = args.duration]
    /\ pc' = "cpu"
    /\ UNCHANGED <<err, errAt, args, fs, namespaces, hosts, inflight, requests,
                   net_rx_result, ingress_metrics, label_idx, returned, status,
                   md_report>>

\* collect_ingress_metrics, lines 129-134.
EnterIngressCollector ==
    /\ pc = "ingress_start"
    /\ selector' = Selector(hosts)
    /\ ingress_metrics' = [hosts |-> hosts, ingress |-> <<>>]
    /\ label_idx' = 1
    /\ pc' = "req"
    /\ UNCHANGED <<err, errAt, args, fs, namespaces, hosts, inflight, requests,
                   net_rx_result, pod_metrics, returned, status, md_report>>

\* The family of the query the run is at.
Family == IF pc = "latency" THEN Percentiles[label_idx] ELSE pc

\* The f-strings of lines 63, 78, 93, 94, 137, 148, 160: a template chosen by
\* the family, the selector, and the rate window (the memory and
\* request-count queries have none).
BuildQuery(family) ==
    [family |-> family, selector |-> selector,
     window |-> IF family \in {"memory", "req"} THEN 0 ELSE args.duration]

\* The call may start only when no request is outstanding: query() blocks.
MaySend == inflight = <<>>

\* requests.get is called (line 23).
SendQuery ==
    /\ pc \in QueryStages
    /\ MaySend
    /\ inflight' = Append(inflight, BuildQuery(Family))
    /\ requests' = Append(requests, BuildQuery(Family))
    /\ UNCHANGED <<pc, err, errAt, args, fs, namespaces, hosts, selector,
                   net_rx_result, pod_metrics, ingress_metrics, label_idx,
                   returned, status, md_report>>

\* The label sets of the rows a success reply carries.
RowLabels(envelope) ==
    IF envelope.status = "success"
    THEN {ResultRows(envelope)[i].metric :
            i \in {j \in 1..Len(ResultRows(envelope)) : ResultRows(envelope)[j].has_metric}}
    ELSE {}

\* What the reply is, whatever the client makes of it: no connection, an
\* error status or a body that is not JSON.
Failed(reply) == reply.net # "ok" \/ reply.http >= 400 \/ ~reply.decodable

\* The history of replies: per family, how the reply ended ("failed", or its
\* status "success" or "other") and the rows a success reply carried.
Seen(family, reply) ==
    /\ returned' = [returned EXCEPT ![family] =
                      IF Failed(reply) THEN {} ELSE RowLabels(reply.json)]
    /\ status' = [status EXCEPT ![family] =
                    IF Failed(reply) THEN "failed"
                    ELSE IF reply.json.status = "success" THEN "success"
                    ELSE "other"]

\* The stage after a query stage.
NextStage(stage) ==
    CASE stage = "cpu" -> "memory"
      [] stage = "memory" -> "net_rx"
      [] stage = "net_rx" -> "net_tx"
      [] stage = "net_tx" -> "ingress_start"
      [] stage = "req" -> "rate"
      [] stage = "rate" -> "latency"
      [] stage = "latency" -> "save_json"

\* The exception is caught and the run goes on with the next query.
RaiseSwallowed(exc, family) ==
    /\ pc' = NextStage(pc)
    /\ err' = exc
    /\ errAt' = family

\* The exception is caught and the same query is tried again.
RaiseRetried(exc, family) ==
    /\ pc' = pc
    /\ err' = err
    /\ errAt' = errAt

\* An exception leaves main(): nothing after the raising statement runs.
Raise(exc, family) ==
    /\ pc' = "aborted"
    /\ err' = exc
    /\ errAt' = family

\* Lines 64-75 and 79-90: the reply of the CPU or memory query is read.
RecvPod(stage, reply) ==
    /\ pc = stage
    /\ inflight # <<>>
    /\ inflight' = Tail(inflight)
    /\ Seen(stage, reply)
    /\ LET q == query(reply)
           p == Process(pod_metrics, stage, q.result)
       IN IF q.raised
          THEN Raise(q.exc, stage) /\ UNCHANGED pod_metrics
          ELSE IF p.exc # "none"
          THEN Raise(p.exc, stage) /\ UNCHANGED pod_metrics
          ELSE /\ pod_metrics' = p.metrics
               /\ pc' = NextStage(stage)
               /\ UNCHANGED <<err, errAt>>
    /\ UNCHANGED <<args, fs, namespaces, hosts, requests, selector,
                   net_rx_result, ingress_metrics, label_idx, md_report>>

RecvCpu(reply) == RecvPod("cpu", reply)

RecvMemory(reply) == RecvPod("memory", reply)

\* Line 96: the receive reply is kept; its rows are read after the transmit query.
RecvNetRx(reply) ==
    /\ pc = "net_rx"
    /\ inflight # <<>>
    /\ inflight' = Tail(inflight)
    /\ Seen("net_rx", reply)
    /\ LET q == query(reply)
       IN IF q.raised
          THEN Raise(q.exc, "net_rx") /\ UNCHANGED net_rx_result
          ELSE /\ net_rx_result' = q.result
               /\ pc' = NextStage("net_rx")
               /\ UNCHANGED <<err, errAt>>
    /\ UNCHANGED <<args, fs, namespaces, hosts, requests, selector, pod_metrics,
                   ingress_metrics, label_idx, md_report>>

\* Lines 97-123: the transmit reply arrives, both replies are read, metrics is returned.
RecvNetTx(reply) ==
    /\ pc = "net_tx"
    /\ inflight # <<>>
    /\ inflight' = Tail(inflight)
    /\ Seen("net_tx", reply)
    /\ LET q == query(reply)
           rx == Process(pod_metrics, "net_rx", net_rx_result)
           tx == Process(rx.metrics, "net_tx", q.result)
       IN IF q.raised
          THEN Raise(q.exc, "net_tx") /\ UNCHANGED <<pod_metrics, net_rx_result>>
          ELSE IF rx.exc # "none"
          THEN Raise(rx.exc, "net_rx") /\ UNCHANGED <<pod_metrics, net_rx_result>>
          ELSE IF tx.exc # "none"
          THEN Raise(tx.exc, "net_tx") /\ UNCHANGED <<pod_metrics, net_rx_result>>
          ELSE /\ pod_metrics' = tx.metrics
               /\ net_rx_result' = NoEnvelope
               /\ pc' = NextStage("net_tx")
               /\ UNCHANGED <<err, errAt>>
    /\ UNCHANGED <<args, fs, namespaces, hosts, requests, selector,
                   ingress_metrics, label_idx, md_report>>

\* Lines 138-145, 149-156 and 161-168: the reply of an ingress query is read.
RecvIngress(stage, reply) ==
    /\ pc = stage
    /\ inflight # <<>>
    /\ inflight' = Tail(inflight)
    /\ Seen(Family, reply)
    /\ LET q == query(reply)
           p == Process(ingress_metrics, Family, q.result)
           more == stage = "latency" /\ label_idx < Len(Percentiles)
       IN IF q.raised
          THEN Raise(q.exc, Family) /\ UNCHANGED <<ingress_metrics, label_idx>>
          ELSE IF p.exc # "none"
          THEN Raise(p.exc, Family) /\ UNCHANGED <<ingress_metrics, label_idx>>
          ELSE /\ ingress_metrics' = p.metrics
               /\ label_idx' = IF more THEN label_idx + 1 ELSE label_idx
               /\ pc' = IF more THEN stage ELSE NextStage(stage)
               /\ UNCHANGED <<err, errAt>>
    /\ UNCHANGED <<args, fs, namespaces, hosts, requests, selector,
                   net_rx_result, pod_metrics, md_report>>

RecvRequests(reply) == RecvIngress("req", reply)

RecvRate(reply) == RecvIngress("rate", reply)

RecvLatency(reply) == RecvIngress("latency", reply)

\* 'both' forgotten.
WritesJsonOnly == args.output_format = "json"

WritesJson == args.output_format \in {"json", "both"}

WritesMarkdown == args.output_format \in {"markdown", "both"}

\* main, lines 283-294: {**pod_metrics, **ingress_metrics} is dumped.
SaveJson ==
    /\ pc = "save_json"
    /\ fs' = IF WritesJson
             THEN [fs EXCEPT !.json = Append(@, ingress_metrics @@ pod_metrics)]
             ELSE fs
    /\ pc' = "save_md"
    /\ UNCHANGED <<err, errAt, args, namespaces, hosts, inflight, requests,
                   selector, net_rx_result, pod_metrics, ingress_metrics,
                   label_idx, returned, status, md_report>>

\* main, lines 296-304.
SaveMarkdown ==
    /\ pc = "save_md"
    /\ IF WritesMarkdown
       THEN /\ md_report' = generate_markdown_report(pod_metrics, ingress_metrics)
            /\ fs' = [fs EXCEPT !.md = Append(@, md_report')]
       ELSE UNCHANGED <<fs, md_report>>
    /\ pc' = "done"
    /\ UNCHANGED <<err, errAt, args, namespaces, hosts, inflight, requests,
                   selector, net_rx_result, pod_metrics, ingress_metrics,
                   label_idx, returned, status>>

\* generate_markdown_report applied to what collect_pod_metrics returned.
RenderReport ==
    /\ pc = "ingress_start"
    /\ md_report' = generate_markdown_report(pod_metrics, ingress_metrics)
    /\ pc' = "rendered"
    /\ UNCHANGED <<err, errAt, args, fs, namespaces, hosts, inflight, requests,
                   selector, net_rx_result, pod_metrics, ingress_metrics,
                   label_idx, returned, status>>

-----------------------------------------------------------------------------
(* The inputs the runs are checked over.                                   *)

DefaultDuration == 5

SeqsUpTo(S, n) == UNION {[1..m -> S] : m \in 0..n}

Row(metric, kind, k) ==
    [has_metric |-> TRUE, metric |-> metric, value |-> [kind |-> kind, k |-> k]]

Envelope(st, data, result) == [status |-> st, data |-> data, result |-> result]

\* A 200 reply whose body decodes to envelope.
Ok(envelope) == [net |-> "ok", http |-> 200, decodable |-> TRUE, json |-> envelope]

\* No connection or a timeout; a 5xx status; a body that is not JSON.
FailedReplies ==
    {[net |-> "down", http |-> 0, decodable |-> FALSE, json |-> NoEnvelope],
     [net |-> "ok", http |-> 500, decodable |-> TRUE, json |-> NoEnvelope],
     [net |-> "ok", http |-> 200, decodable |-> FALSE, json |-> NoEnvelope]}

LongPod == [i \in 1..(DisplayMax + 1) |-> "x"]

RowAP == Row(<<<<"namespace", <<"a">>>>, <<"pod", <<"p">>>>>>, "num", 12345)

RowBLong == Row(<<<<"namespace", <<"b">>>>, <<"pod", LongPod>>>>, "num", 0)

RowANoPod == Row(<<<<"namespace", <<"a">>>>>>, "num", 10240000)

PodRows == {RowAP, RowBLong, RowANoPod}

NoMetricRow == [has_metric |-> FALSE, metric |-> <<>>, value |-> [kind |-> "num", k |-> 0]]

NoValueRow == Row(<<<<"namespace", <<"a">>>>, <<"host", <<"h">>>>>>, "missing", 0)

TextValueRow == Row(<<<<"namespace", <<"a">>>>, <<"host", <<"h">>>>>>, "text", 0)

BadRows == {NoMetricRow, NoValueRow, TextValueRow}

\* Envelopes of shapes other than a success with well-formed rows.
OddReplies(row) ==
    {Ok(Envelope("error", "missing", <<>>)),
     Ok(Envelope("error", "map", <<row>>)),
     Ok(Envelope("success", "missing", <<>>)),
     Ok(Envelope("success", "nonmap", <<>>)),
     Ok(Envelope("success", "map", <<row, NoMetricRow>>))}
        \cup {Ok(Envelope("success", "map", <<b>>)) : b \in BadRows}

PodReplies ==
    FailedReplies \cup OddReplies(RowAP)
        \cup {Ok(Envelope("success", "map", r)) : r \in SeqsUpTo(PodRows, MaxRows)}

RowH == Row(<<<<"host", <<"h">>>>>>, "num", 953)

RowG == Row(<<<<"host", <<"g">>>>>>, "num", 0)

RowNoHost == Row(<<>>, "num", 20000)

IngressRows == {RowH, RowG, RowNoHost}

IngressReplies ==
    FailedReplies \cup OddReplies(RowH)
        \cup {Ok(Envelope("success", "map", r)) : r \in SeqsUpTo(IngressRows, MaxRows)}

RowAll ==
    Row(<<<<"namespace", <<"a">>>>, <<"pod", <<"p">>>>, <<"host", <<"h">>>>>>, "num", 5000)

MainReplies ==
    FailedReplies
        \cup {Ok(Envelope("error", "missing", <<>>)),
              Ok(Envelope("success", "map", <<RowAll>>)),
              Ok(Envelope("success", "map", <<NoMetricRow>>))}

ArgReplies ==
    {[net |-> "ok", http |-> 500, decodable |-> TRUE, json |-> NoEnvelope],
     Ok(Envelope("success", "map", <<>>))}

NotGiven == [given |-> FALSE, text |-> <<>>]

Given(text) == [given |-> TRUE, text |-> text]

Formats == {"json", "markdown", "both"}

\* --namespaces: absent, "", "c", "a,a", " a , c"
NamespaceArgs ==
    {NotGiven, Given(<<>>), Given(<<"c">>), Given(<<"a", ",", "a">>),
     Given(<<" ", "a", " ", ",", " ", "c">>)}

\* --hosts: absent, "", "g", " h,g "
HostArgs ==
    {NotGiven, Given(<<>>), Given(<<"g">>), Given(<<" ", "h", ",", "g", " ">>)}

\* --urls: absent, "", "u"
UrlsArgs == {NotGiven, Given(<<>>), Given(<<"u">>)}

Entry(hasNs, ns, hasUrl, url) ==
    [has_namespace |-> hasNs, namespace |-> ns, has_url |-> hasUrl, url |-> url]

\* url: "", "h", "s://h", "s://g/x", "s:x", "//h"
Urls ==
    {<<>>, <<"h">>, <<"s", ":", "/", "/", "h">>,
     <<"s", ":", "/", "/", "g", "/", "x">>, <<"s", ":", "x">>, <<"/", "/", "h">>}

EntrySet ==
    {Entry(FALSE, <<>>, FALSE, <<>>)}
        \cup {Entry(TRUE, ns, FALSE, <<>>) : ns \in {<<"a">>, ingress_nginx}}
        \cup {Entry(FALSE, <<>>, TRUE, u) : u \in Urls}
        \cup {Entry(TRUE, ns, TRUE, u) : ns \in {<<"a">>, ingress_nginx}, u \in Urls}

\* [{"namespace": "a", "url": "s://h"}, {"namespace": "b"}]
SampleEntries ==
    <<Entry(TRUE, <<"a">>, TRUE, <<"s", ":", "/", "/", "h">>),
      Entry(TRUE, <<"b">>, FALSE, <<>>)>>

Args(urls, ns, hs, fmt) ==
    [urls |-> urls, namespaces |-> ns, hosts |-> hs,
     duration |-> DefaultDuration, output_format |-> fmt]

Files(isfile, entries) ==
    [isfile |-> isfile, entries |-> entries, json |-> <<>>, md |-> <<>>]

\* The state main() starts in, but for pc, args and fs.
Fresh ==
    /\ err = "none"
    /\ errAt = "none"
    /\ inflight = <<>>
    /\ requests = <<>>
    /\ selector = <<>>
    /\ net_rx_result = NoEnvelope
    /\ pod_metrics = NoPodMetrics
    /\ ingress_metrics = NoIngressMetrics
    /\ label_idx = 1
    /\ returned = [f \in Families |-> {}]
    /\ status = [f \in Families |-> "none"]
    /\ md_report = NoReport

-----------------------------------------------------------------------------
(* Spec: a run of main().                                                  *)

Init ==
    /\ pc = "start"
    /\ args \in {Args(NotGiven, ns, NotGiven, fmt) :
                    ns \in {NotGiven, Given(<<"a", ",", "b">>)}, fmt \in Formats}
    /\ fs = Files(FALSE, <<>>)
    /\ namespaces = <<>>
    /\ hosts = <<>>
    /\ Fresh

MainSteps(Replies) ==
    \/ ParseConfig
    \/ EnterPodCollector
    \/ SendQuery
    \/ \E r \in Replies : RecvCpu(r)
    \/ \E r \in Replies : RecvMemory(r)
    \/ \E r \in Replies : RecvNetRx(r)
    \/ \E r \in Replies : RecvNetTx(r)
    \/ EnterIngressCollector
    \/ \E r \in Replies : RecvRequests(r)
    \/ \E r \in Replies : RecvRate(r)
    \/ \E r \in Replies : RecvLatency(r)
    \/ SaveJson
    \/ SaveMarkdown

Next == MainSteps(MainReplies)

Spec == Init /\ [][Next]_vars

(* SpecArgs: main() over its command line and the --urls file.             *)

InitArgs ==
    /\ pc = "start"
    /\ args \in {Args(u, ns, hs, "both") :
                    u \in UrlsArgs, ns \in NamespaceArgs, hs \in HostArgs}
    /\ fs \in {Files(b, SampleEntries) : b \in BOOLEAN}
    /\ namespaces = <<>>
    /\ hosts = <<>>
    /\ Fresh

NextArgs == MainSteps(ArgReplies)

SpecArgs == InitArgs /\ [][NextArgs]_vars

(* SpecConfig: the --urls file read by main().                             *)

InitConfig ==
    /\ pc = "start"
    /\ args = Args(Given(<<"u">>), NotGiven, NotGiven, "both")
    /\ fs \in {Files(TRUE, es) : es \in SeqsUpTo(EntrySet, MaxEntries)}
    /\ namespaces = <<>>
    /\ hosts = <<>>
    /\ Fresh

NextConfig == ParseConfig

SpecConfig == InitConfig /\ [][NextConfig]_vars

(* SpecPod: collect_pod_metrics, and the report rendered from its result.  *)

InitPod ==
    /\ pc = "pod_start"
    /\ args = Args(NotGiven, NotGiven, NotGiven, "both")
    /\ fs = Files(FALSE, <<>>)
    /\ namespaces = <<<<"a">>, <<"b">>>>
    /\ hosts = <<>>
    /\ Fresh

NextPod ==
    \/ EnterPodCollector
    \/ SendQuery
    \/ \E r \in PodReplies : RecvCpu(r)
    \/ \E r \in PodReplies : RecvMemory(r)
    \/ \E r \in PodReplies : RecvNetRx(r)
    \/ \E r \in PodReplies : RecvNetTx(r)
    \/ RenderReport

SpecPod == InitPod /\ [][NextPod]_vars

(* SpecIngress: collect_ingress_metrics.                                   *)

InitIngress ==
    /\ pc = "ingress_start"
    /\ args = Args(NotGiven, NotGiven, NotGiven, "both")
    /\ fs = Files(FALSE, <<>>)
    /\ namespaces = <<>>
    /\ hosts = <<<<"h">>, <<"g">>>>
    /\ Fresh

NextIngress ==
    \/ EnterIngressCollector
    \/ SendQuery
    \/ \E r \in IngressReplies : RecvRequests(r)
    \/ \E r \in IngressReplies : RecvRate(r)
    \/ \E r \in IngressReplies : RecvLatency(r)

SpecIngress == InitIngress /\ [][NextIngress]_vars

-----------------------------------------------------------------------------
(* The claims.                                                             *)

Written == fs.json # <<>> \/ fs.md # <<>>

C2_OnlyTransportErrorsPropagate == err \in {"none"} \cup TransportErrors

\* The lists the sample urls.json gives: {"a", "b", "ingress-nginx"} and ["h"].
SampleNamespaces == {<<"a">>, <<"b">>, ingress_nginx}

SampleHosts == <<<<"h">>>>

FileDerived(list, S) ==
    {list[i] : i \in 1..Len(list)} = S /\ Len(list) = Cardinality(S)

\* C3: a supplied --namespaces (--hosts) is the list passed on, split at commas
\* and stripped, with nothing from the --urls file; an option not supplied
\* leaves its list file-derived when the file is read.
C3_ExplicitArgsReplace ==
    pc # "start" =>
        /\ args.namespaces.given => namespaces = SplitStrip(args.namespaces.text)
        /\ args.hosts.given => hosts = SplitStrip(args.hosts.text)
        /\ (~args.namespaces.given /\ UsesFile) => FileDerived(namespaces, SampleNamespaces)
        /\ (~args.hosts.given /\ UsesFile) => hosts = SampleHosts

\* C3, for options given a non-empty value: what holds of the code.
C3_NonEmptyArgsReplace ==
    pc # "start" =>
        /\ args.namespaces.text # <<>> => namespaces = SplitStrip(args.namespaces.text)
        /\ args.hosts.text # <<>> => hosts = SplitStrip(args.hosts.text)
        /\ (args.namespaces.text = <<>> /\ UsesFile) =>
                FileDerived(namespaces, SampleNamespaces)
        /\ (args.hosts.text = <<>> /\ UsesFile) => hosts = SampleHosts

PodRequests == {i \in 1..Len(requests) : requests[i].family \in PodFamilies}

\* C4 as claimed: the alternatives of the selector of every pod query are the
\* distinct namespace names, each once, in the order of the input.
C4_EachDistinctNameOnce ==
    \A i \in PodRequests :
        namespaces # <<>> => Split(requests[i].selector, "|") = Distinct(namespaces)

RECURSIVE Offset(_, _)
\* Where name i starts in the joined names: after the names before it and their bars.
Offset(names, i) ==
    IF i = 1 THEN 0 ELSE Offset(names, i - 1) + Len(names[i - 1]) + 1

\* C4, amended: the selector of every pod query is the input names in input
\* order with one '|' between neighbours, a repeated name repeated; its
\* alternatives are the input list itself.
C4_SelectorJoinsInputInOrder ==
    \A i \in PodRequests :
        LET sel == requests[i].selector
            n == Len(namespaces)
        IN namespaces # <<>> =>
            /\ Len(sel) = Offset(namespaces, n) + Len(namespaces[n])
            /\ \A j \in 1..n :
                 /\ SubSeq(sel, Offset(namespaces, j) + 1,
                           Offset(namespaces, j) + Len(namespaces[j])) = namespaces[j]
                 /\ j < n => sel[Offset(namespaces, j) + Len(namespaces[j]) + 1] = "|"
            /\ (\A j \in 1..n : \A k \in 1..Len(namespaces[j]) : namespaces[j][k] # "|")
                    => Split(sel, "|") = namespaces

\* C4: the four pod queries were sent for --namespaces a,a.
C4_Witness ==
    /\ namespaces = <<<<"a">>, <<"a">>>>
    /\ \A f \in PodFamilies : \E i \in PodRequests : requests[i].family = f

LabelOf(metric, name) == Get(metric, name, unknown)

PairsOf(metrics) == {<<LabelOf(m, "namespace"), LabelOf(m, "pod")>> : m \in metrics}

\* The (namespace, pod) pairs of a mapping of collect_pod_metrics.
Entries(d) == UNION {{<<d[i][1], k>> : k \in KeySet(d[i][2])} : i \in 1..Len(d)}

RecordOf(d, pair) == Get(Get(d, pair[1], <<>>), pair[2], <<>>)

PodReturned == pc \in {"ingress_start", "rendered"}

\* C5: in what collect_pod_metrics returns, a pair is in a family's mapping iff
\* a success reply of that family carried a row with its labels (absent labels
\* read as "unknown"); the rx_* keys of a network record are there iff the
\* receive reply carried the pair, the tx_* keys iff the transmit reply did;
\* and no reply of another status makes the collector raise.
C5_EntriesIffRows ==
    /\ PodReturned =>
        /\ Entries(pod_metrics.cpu) = PairsOf(returned["cpu"])
        /\ Entries(pod_metrics.memory) = PairsOf(returned["memory"])
        /\ Entries(pod_metrics.network) =
                PairsOf(returned["net_rx"]) \cup PairsOf(returned["net_tx"])
        /\ \A pr \in Entries(pod_metrics.network) :
            LET rec == RecordOf(pod_metrics.network, pr)
            IN /\ Has(rec, "rx_bytes_per_sec") <=> pr \in PairsOf(returned["net_rx"])
               /\ Has(rec, "rx_kb_per_sec") <=> pr \in PairsOf(returned["net_rx"])
               /\ Has(rec, "tx_bytes_per_sec") <=> pr \in PairsOf(returned["net_tx"])
               /\ Has(rec, "tx_kb_per_sec") <=> pr \in PairsOf(returned["net_tx"])
        /\ \A f \in PodFamilies : status[f] \in {"success", "other"}
    /\ err \notin {"none"} \cup TransportErrors => status[errAt] = "success"

\* C5: the collector returned after a CPU reply whose status was not success,
\* with a pod seen by the receive query only.
C5_Witness ==
    /\ pc = "ingress_start"
    /\ status["cpu"] = "other"
    /\ \E pr \in Entries(pod_metrics.network) :
        /\ Has(RecordOf(pod_metrics.network, pr), "rx_kb_per_sec")
        /\ ~Has(RecordOf(pod_metrics.network, pr), "tx_kb_per_sec")

LatencyKeys == <<"p50_latency_ms", "p95_latency_ms", "p99_latency_ms">>

HostsOf(metrics) == {LabelOf(m, "host") : m \in metrics}

\* C6: in what collect_ingress_metrics returns, a host has the key
\* pNN_latency_ms iff the success reply of that percentile's query carried a
\* row for it, whatever the other queries returned.
C6_PercentileKeyIffRow ==
    pc = "save_json" =>
        \A i \in 1..Len(Percentiles) :
            {h \in KeySet(ingress_metrics.ingress) :
                Has(Get(ingress_metrics.ingress, h, <<>>), LatencyKeys[i])}
                    = HostsOf(returned[Percentiles[i]])

\* C6: a host with a request count and a p50 but no p95, beside a host whose
\* p99 is a measured 0.
C6_Witness ==
    /\ pc = "save_json"
    /\ \E h, g \in KeySet(ingress_metrics.ingress) :
        LET rec == Get(ingress_metrics.ingress, h, <<>>)
        IN /\ Has(rec, "total_requests")
           /\ Has(rec, "p50_latency_ms")
           /\ ~Has(rec, "p95_latency_ms")
           /\ Get(Get(ingress_metrics.ingress, g, <<>>), "p99_latency_ms", 1) = 0

RECURSIVE InsertionOrder(_)
\* The (namespace, pod) pairs of a mapping: namespaces as first inserted, the
\* pods of each as inserted.
InsertionOrder(d) ==
    IF d = <<>> THEN <<>>
    ELSE [j \in 1..Len(d[1][2]) |-> <<d[1][1], d[1][2][j][1]>>]
            \o InsertionOrder(Tail(d))

\* C7: the pod table has one row per pair of the cpu mapping, in its insertion
\* order, and none for other pairs; a memory, RX or TX cell is the integer 0
\* when the memory or network mapping has no value for the pair.
C7_RowsFollowCpuMapping ==
    pc = "rendered" =>
        LET pairs == InsertionOrder(pod_metrics.cpu)
            T == md_report.pod_table
        IN /\ Len(T) = Len(pairs)
           /\ \A k \in 1..Len(pairs) :
                LET c == RecordOf(pod_metrics.cpu, pairs[k])
                    m == RecordOf(pod_metrics.memory, pairs[k])
                    n == RecordOf(pod_metrics.network, pairs[k])
                IN /\ T[k].ns = pairs[k][1]
                   /\ T[k].pod = PodDisplay(pairs[k][2])
                   /\ T[k].cpu = <<"float", Get(c, "usage_millicores", 0)>>
                   /\ T[k].mem = IF Has(m, "usage_mb")
                                 THEN <<"float", Get(m, "usage_mb", 0)>> ELSE <<"int", 0>>
                   /\ T[k].rx = IF Has(n, "rx_kb_per_sec")
                                THEN <<"float", Get(n, "rx_kb_per_sec", 0)>> ELSE <<"int", 0>>
                   /\ T[k].tx = IF Has(n, "tx_kb_per_sec")
                                THEN <<"float", Get(n, "tx_kb_per_sec", 0)>> ELSE <<"int", 0>>

\* C7: a report of two rows, namespace b first, rendered while the memory
\* mapping holds a pair the cpu mapping lacks and lacks one it has.
C7_Witness ==
    /\ pc = "rendered"
    /\ Len(md_report.pod_table) = 2
    /\ md_report.pod_table[1].ns = <<"b">>
    /\ md_report.pod_table[1].mem = <<"int", 0>>
    /\ Entries(pod_metrics.memory) \ Entries(pod_metrics.cpu) # {}

\* The authority of each URL the entries are drawn from.
AuthorityOf(url) ==
    CASE url = <<"s", ":", "/", "/", "h">> -> <<"h">>
      [] url = <<"s", ":", "/", "/", "g", "/", "x">> -> <<"g">>
      [] url = <<"/", "/", "h">> -> <<"h">>
      [] OTHER -> <<>>

ExpectedHosts(entries) ==
    SelectSeq([i \in 1..Len(entries) |->
                  IF entries[i].has_url THEN AuthorityOf(entries[i].url) ELSE <<>>],
              LAMBDA a : a # <<>>)

\* C8: the namespaces read from the file are, as a set, those of the entries
\* that carry one plus 'ingress-nginx'; the hosts are the authorities of the
\* entries' host-bearing URLs, in entry order.
C8_ConfigFromEntries ==
    pc = "pod_start" =>
        /\ {namespaces[i] : i \in 1..Len(namespaces)} =
                {fs.entries[i].namespace :
                    i \in {j \in 1..Len(fs.entries) : fs.entries[j].has_namespace}}
                \cup {ingress_nginx}
        /\ hosts = ExpectedHosts(fs.entries)

\* C8: two entries, the first with a URL that has no authority, the second
\* with namespace and a URL with a path.
C8_Witness ==
    /\ pc = "pod_start"
    /\ Len(fs.entries) = 2
    /\ fs.entries[1].url = <<"h">>
    /\ ~fs.entries[1].has_namespace
    /\ fs.entries[2].has_namespace
    /\ hosts = <<<<"g">>>>

\* C9: a finished run wrote resource_metrics.json iff the format is json or
\* both and resource_metrics.md iff it is markdown or both; no file is written
\* twice, nor before both collectors returned.
C9_FilesFollowFormat ==
    /\ Len(fs.json) <= 1
    /\ Len(fs.md) <= 1
    /\ fs.json # <<>> => pc \in {"save_md", "done"}
    /\ fs.md # <<>> => pc = "done"
    /\ pc = "done" =>
        /\ fs.json # <<>> <=> args.output_format \in {"json", "both"}
        /\ fs.md # <<>> <=> args.output_format \in {"markdown", "both"}

\* C9: a finished markdown-only run.
C9_Witness ==
    /\ pc = "done"
    /\ args.output_format = "markdown"
    /\ fs.json = <<>>
    /\ Len(fs.md) = 1

QueryOrder == <<"cpu", "memory", "net_rx", "net_tx", "req", "rate", "p50", "p95", "p99">>

====
